---- MODULE Spec2Model ----
(***************************************************************************)
(* Model of src/utils/WeaponAiming.ts: the WeaponAiming object (its config, *)
(* its optional wall layer and its graphics layer) and its public           *)
(* operations setWallLayer, updateConfig, clear, getGraphics, showAiming    *)
(* and showSkillAiming, with every private show...Aiming helper.            *)
(*                                                                          *)
(* Numbers: coordinates, distances and joystick distances are integers      *)
(* (pixels).  Angles are integer degrees; the aim angle is a multiple of    *)
(* 90 degrees so that Math.cos / Math.sin are exact.  Angles derived in the *)
(* code by adding a constant in radians (0.1) are kept as the pair          *)
(* <<degrees, milliradians>>; points the code computes from such an angle   *)
(* are kept in polar form (centre, angle, radius).  Alpha values are in     *)
(* percent.                                                                 *)
(***************************************************************************)
EXTENDS Integers, Sequences, FiniteSets, TLC

VARIABLES config, wallLayer, graphics, last

vars == <<config, wallLayer, graphics, last>>

-----------------------------------------------------------------------------
(* Bounds of the model and the inputs the operations are called with.       *)

\* joystick distances are 0, 50, ..., 50 * MaxMagSteps
MaxMagSteps == 2

Magnitudes == {50 * k : k \in 0..MaxMagSteps}

Angles == {0, 90, 180}

Origins == {[x |-> 40, y |-> -20]}

WeaponTypes == {"DEFAULT", "SNIPER", "SHOTGUN", "THROWER", "BOMB", "MACHINEGUN", "LASER"}

SkillTypes == {"DASH", "SHIELD", "HEAL", "SCOPE", "BOMB", "TELEPORT"}

\* a wall layer is one straight wall: the line x = at or the line y = at
NoLayer == [axis |-> "unset", at |-> 0]

Layers == {[axis |-> "x", at |-> 100], [axis |-> "y", at |-> -5000]}

-----------------------------------------------------------------------------
(* Arithmetic helpers.                                                      *)

Min(a, b) == IF a <= b THEN a ELSE b

Max(a, b) == IF a >= b THEN a ELSE b

Abs(a) == IF a < 0 THEN -a ELSE a

\* a * n / 10, the code's maxDistance * 0.n
Tenths(a, n) == (a * n) \div 10

\* a / b rounded toward zero, b # 0
Quot(a, b) ==
    IF (a >= 0) = (b > 0) THEN Abs(a) \div Abs(b) ELSE -(Abs(a) \div Abs(b))

RECURSIVE SqrtFrom(_, _)
SqrtFrom(n, r) == IF (r + 1) * (r + 1) > n THEN r ELSE SqrtFrom(n, r + 1)

Cos(a) == CASE a % 360 = 0 -> 1
            [] a % 360 = 90 -> 0
            [] a % 360 = 180 -> -1
            [] a % 360 = 270 -> 0

Sin(a) == CASE a % 360 = 0 -> 0
            [] a % 360 = 90 -> 1
            [] a % 360 = 180 -> 0
            [] a % 360 = 270 -> -1

Vec(x, y) == [x |-> x, y |-> y]

\* Phaser.Math.Distance.Between, exact on axis-aligned pairs
DistanceBetween(x1, y1, x2, y2) ==
    IF x1 = x2 THEN Abs(y2 - y1)
    ELSE IF y1 = y2 THEN Abs(x2 - x1)
    ELSE SqrtFrom((x2 - x1) * (x2 - x1) + (y2 - y1) * (y2 - y1), 0)

-----------------------------------------------------------------------------
(* ProjectileCalculator (the collaborator held in this.calculator).         *)

calculateLinearTrajectory(startX, startY, angle, distance) ==
    [start |-> Vec(startX, startY),
     end   |-> Vec(startX + distance * Cos(angle), startY + distance * Sin(angle))]

calculateShotgunSpread(startX, startY, angle, distance, spreadAngle) ==
    [center    |-> Vec(startX + distance * Cos(angle), startY + distance * Sin(angle)),
     leftEdge  |-> <<startX, startY, angle - spreadAngle, distance>>,
     rightEdge |-> <<startX, startY, angle + spreadAngle, distance>>]

\* position(t) = origin + t * v0 - gravity * t^2 / 2 in y, at t = 0, timeStep, ...
calculateParabolicTrajectory(startX, startY, angle, power, gravity, steps, timeStep) ==
    [k \in 1..steps |->
        LET t == (k - 1) * timeStep
        IN  Vec(startX + t * power * Cos(angle),
                startY + t * power * Sin(angle) - (gravity * t * t) \div 2)]

NoHit == [hit |-> FALSE, x |-> 0, y |-> 0]

Hit(x, y) == [hit |-> TRUE, x |-> x, y |-> y]

\* first point of the segment (x0,y0)-(x1,y1) on the wall of the layer, if any
checkRaycastHitWall(x0, y0, x1, y1, layer) ==
    CASE layer.axis = "x" ->
            IF Min(x0, x1) <= layer.at /\ layer.at <= Max(x0, x1)
            THEN IF x0 = x1 THEN Hit(x0, y0)
                 ELSE Hit(layer.at, y0 + Quot((y1 - y0) * (layer.at - x0), x1 - x0))
            ELSE NoHit
      [] layer.axis = "y" ->
            IF Min(y0, y1) <= layer.at /\ layer.at <= Max(y0, y1)
            THEN IF y0 = y1 THEN Hit(x0, y0)
                 ELSE Hit(x0 + Quot((x1 - x0) * (layer.at - y0), y1 - y0), layer.at)
            ELSE NoHit
      [] OTHER -> NoHit

-----------------------------------------------------------------------------
(* The object's state.                                                      *)

DefaultConfig ==
    [lineColor |-> 16777215, lineAlpha |-> 70, fillColor |-> 16711680,
     fillAlpha |-> 50, lineWidth |-> 2, maxDistance |-> 500,
     showTrajectory |-> TRUE]

Field(p, cfg, f) == IF f \in DOMAIN p THEN p[f] ELSE cfg[f]

\* { ...cfg, ...p }
Merge(cfg, p) ==
    [lineColor      |-> Field(p, cfg, "lineColor"),
     lineAlpha      |-> Field(p, cfg, "lineAlpha"),
     fillColor      |-> Field(p, cfg, "fillColor"),
     fillAlpha      |-> Field(p, cfg, "fillAlpha"),
     lineWidth      |-> Field(p, cfg, "lineWidth"),
     maxDistance    |-> Field(p, cfg, "maxDistance"),
     showTrajectory |-> Field(p, cfg, "showTrajectory")]

\* the Partial<AimingConfig> values the constructor and updateConfig are given
ConfigPartials ==
    << [maxDistance |-> 500], [maxDistance |-> 200],
       [showTrajectory |-> FALSE], [showTrajectory |-> TRUE] >>

HasWall == wallLayer # NoLayer

Cmd(op, args) == [op |-> op, args |-> args]

Ray(x0, y0, x1, y1, cast) == [from |-> Vec(x0, y0), to |-> Vec(x1, y1), cast |-> cast]

NoCall ==
    [kind |-> "none", x |-> 0, y |-> 0, angle |-> 0, joystickDistance |-> 0,
     type |-> "", wall |-> NoLayer, maxDistance |-> 0,
     result |-> [targetPoint |-> Vec(0, 0), trajectoryPoints |-> {}, area |-> {}],
     range |-> 0, rawEnd |-> Vec(0, 0), rays |-> <<>>]

Init ==
    /\ \E i \in 1..Len(ConfigPartials) : config = Merge(DefaultConfig, ConfigPartials[i])
    /\ wallLayer = NoLayer
    /\ graphics = <<>>
    /\ last = NoCall

-----------------------------------------------------------------------------
(* The private weapon helpers.  Each yields the returned result, the        *)
(* drawing commands it issues (draw), the range it computed, the unclipped  *)
(* end of the path (rawEnd) and the raycasts it made, in order (rays).      *)

Outcome(targetPoint, trajectoryPoints, area, draw, range, rawEnd, rays) ==
    [result |-> [targetPoint |-> targetPoint, trajectoryPoints |-> trajectoryPoints,
                 area |-> area],
     draw |-> draw, range |-> range, rawEnd |-> rawEnd, rays |-> rays]

\* the "if (this.wallLayer) { hitPoint = checkRaycastHitWall(...) }" block
WallCheck(startX, startY, endX, endY) ==
    IF HasWall THEN checkRaycastHitWall(startX, startY, endX, endY, wallLayer) ELSE NoHit

WallRays(startX, startY, endX, endY) ==
    IF HasWall
    THEN << Ray(startX, startY, endX, endY, WallCheck(startX, startY, endX, endY)) >>
    ELSE << >>

\* "let endPoint = end; if (hitPoint) endPoint = hitPoint"
Clip(startX, startY, end) ==
    LET hitPoint == WallCheck(startX, startY, end.x, end.y)
    IN  IF hitPoint.hit THEN Vec(hitPoint.x, hitPoint.y) ELSE end

showDefaultAiming(startX, startY, angle) ==
    LET distance   == Tenths(config.maxDistance, 6)
        trajectory == calculateLinearTrajectory(startX, startY, angle, distance)
        endPoint   == Clip(startX, startY, trajectory.end)
    IN  Outcome(endPoint, {}, {},
                << Cmd("lineBetween", <<startX, startY, endPoint.x, endPoint.y>>),
                   Cmd("fillCircle", <<endPoint.x, endPoint.y, 5>>) >>,
                distance, trajectory.end,
                WallRays(startX, startY, trajectory.end.x, trajectory.end.y))

showSniperAiming(startX, startY, angle) ==
    LET distance   == Tenths(config.maxDistance, 15)
        trajectory == calculateLinearTrajectory(startX, startY, angle, distance)
        endPoint   == Clip(startX, startY, trajectory.end)
        dashLength == 10
        gapLength  == 5
        lineLength == DistanceBetween(startX, startY, endPoint.x, endPoint.y)
        segments   == lineLength \div (dashLength + gapLength)
        directionX == Cos(angle)
        directionY == Sin(angle)
        dashes     == [k \in 1..segments |->
                        LET startDash == (k - 1) * (dashLength + gapLength)
                        IN  Cmd("lineBetween",
                                <<startX + directionX * startDash,
                                  startY + directionY * startDash,
                                  startX + directionX * (startDash + dashLength),
                                  startY + directionY * (startDash + dashLength)>>)]
    IN  Outcome(endPoint, {}, {},
                dashes \o
                << Cmd("lineStyle", <<1, config.lineColor, config.lineAlpha>>),
                   Cmd("strokeCircle", <<endPoint.x, endPoint.y, 15>>),
                   Cmd("strokeCircle", <<endPoint.x, endPoint.y, 5>>),
                   Cmd("lineBetween", <<endPoint.x - 20, endPoint.y, endPoint.x + 20, endPoint.y>>),
                   Cmd("lineBetween", <<endPoint.x, endPoint.y - 20, endPoint.x, endPoint.y + 20>>) >>,
                distance, trajectory.end,
                WallRays(startX, startY, trajectory.end.x, trajectory.end.y))

\* the arc of the cone: centre, radius, start angle, end angle
Arc(x, y, radius, startDeg, startMrad, endDeg, endMrad) ==
    Cmd("arc", <<x, y, radius, startDeg, startMrad, endDeg, endMrad>>)

\* showShotgunAiming with the sector drawn at the full range
showShotgunAiming_FullRadius(startX, startY, angle) ==
    LET distance    == Tenths(config.maxDistance, 4)
        spreadAngle == 30
        spread      == calculateShotgunSpread(startX, startY, angle, distance, spreadAngle)
        centerPoint == Clip(startX, startY, spread.center)
        arcRadius   == distance
        startAngle  == angle - spreadAngle
        endAngle    == angle + spreadAngle
    IN  Outcome(centerPoint, {}, {},
                << Cmd("beginPath", <<>>),
                   Cmd("moveTo", <<startX, startY>>),
                   Cmd("lineToPolar", <<startX, startY, startAngle, 0, arcRadius>>),
                   Arc(startX, startY, arcRadius, startAngle, 0, endAngle, 0),
                   Cmd("lineTo", <<startX, startY>>),
                   Cmd("closePath", <<>>),
                   Cmd("fillPath", <<>>),
                   Cmd("strokePath", <<>>) >>,
                distance, spread.center,
                WallRays(startX, startY, spread.center.x, spread.center.y))

showShotgunAiming(startX, startY, angle) ==
    LET distance    == Tenths(config.maxDistance, 4)
        spreadAngle == 30
        spread      == calculateShotgunSpread(startX, startY, angle, distance, spreadAngle)
        centerPoint == Clip(startX, startY, spread.center)
        arcRadius   == DistanceBetween(startX, startY, centerPoint.x, centerPoint.y)
        startAngle  == angle - spreadAngle
        endAngle    == angle + spreadAngle
    IN  Outcome(centerPoint, {}, {},
                << Cmd("beginPath", <<>>),
                   Cmd("moveTo", <<startX, startY>>),
                   Cmd("lineToPolar", <<startX, startY, startAngle, 0, arcRadius>>),
                   Arc(startX, startY, arcRadius, startAngle, 0, endAngle, 0),
                   Cmd("lineTo", <<startX, startY>>),
                   Cmd("closePath", <<>>),
                   Cmd("fillPath", <<>>),
                   Cmd("strokePath", <<>>) >>,
                distance, spread.center,
                WallRays(startX, startY, spread.center.x, spread.center.y))

\* the scan without its break: later pairs are still raycast
RECURSIVE ScanTrajectory_NoBreak(_, _)
ScanTrajectory_NoBreak(trajectoryPoints, i) ==
    IF i >= Len(trajectoryPoints)
    THEN [found |-> FALSE, endPoint |-> Vec(0, 0),
          endPointIndex |-> Len(trajectoryPoints) - 1, rays |-> << >>]
    ELSE LET prevPoint    == trajectoryPoints[i]
             currentPoint == trajectoryPoints[i + 1]
             hitPoint     == checkRaycastHitWall(prevPoint.x, prevPoint.y,
                                                 currentPoint.x, currentPoint.y, wallLayer)
             ray          == Ray(prevPoint.x, prevPoint.y,
                                 currentPoint.x, currentPoint.y, hitPoint)
             rest         == ScanTrajectory_NoBreak(trajectoryPoints, i + 1)
         IN  IF hitPoint.hit /\ ~rest.found
             THEN [found |-> TRUE, endPoint |-> Vec(hitPoint.x, hitPoint.y),
                   endPointIndex |-> i, rays |-> << ray >> \o rest.rays]
             ELSE [rest EXCEPT !.rays = << ray >> \o @]

\* the for loop over consecutive samples, from TS index i (points[i + 1] here)
RECURSIVE ScanTrajectory(_, _)
ScanTrajectory(trajectoryPoints, i) ==
    IF i >= Len(trajectoryPoints)
    THEN [found |-> FALSE, endPoint |-> Vec(0, 0),
          endPointIndex |-> Len(trajectoryPoints) - 1, rays |-> << >>]
    ELSE LET prevPoint    == trajectoryPoints[i]
             currentPoint == trajectoryPoints[i + 1]
             hitPoint     == checkRaycastHitWall(prevPoint.x, prevPoint.y,
                                                 currentPoint.x, currentPoint.y, wallLayer)
             ray          == Ray(prevPoint.x, prevPoint.y,
                                 currentPoint.x, currentPoint.y, hitPoint)
         IN  IF hitPoint.hit
             THEN [found |-> TRUE, endPoint |-> Vec(hitPoint.x, hitPoint.y),
                   endPointIndex |-> i, rays |-> << ray >>]
             ELSE LET rest == ScanTrajectory(trajectoryPoints, i + 1)
                  IN  [rest EXCEPT !.rays = << ray >> \o @]

\* "power = 300 + normalizedDistance * 500", normalizedDistance = min(j / 100, 1)
ThrowPower(joystickDistance) == 300 + (Min(joystickDistance, 100) * 500) \div 100

\* showThrowerAiming returning the samples only when they are drawn
showThrowerAiming_DrawnOnly(startX, startY, angle, joystickDistance) ==
    LET power            == ThrowPower(joystickDistance)
        trajectoryPoints == calculateParabolicTrajectory(startX, startY, angle, power, 980, 20, 2)
        noScan           == [found |-> FALSE, endPoint |-> Vec(0, 0),
                             endPointIndex |-> Len(trajectoryPoints) - 1, rays |-> << >>]
        scan             == IF HasWall THEN ScanTrajectory(trajectoryPoints, 1) ELSE noScan
        lastPoint        == trajectoryPoints[Len(trajectoryPoints)]
        endPoint         == IF scan.found THEN scan.endPoint ELSE lastPoint
        validTrajectoryPoints ==
            IF config.showTrajectory
            THEN SubSeq(trajectoryPoints, 1, scan.endPointIndex + 1)
            ELSE << >>
        lines            == [k \in 1..(Len(validTrajectoryPoints) - 1) |->
                                Cmd("lineBetween",
                                    <<validTrajectoryPoints[k].x, validTrajectoryPoints[k].y,
                                      validTrajectoryPoints[k + 1].x,
                                      validTrajectoryPoints[k + 1].y>>)]
    IN  Outcome(endPoint, {validTrajectoryPoints}, {},
                lines \o
                << Cmd("fillCircle", <<endPoint.x, endPoint.y, 8>>),
                   Cmd("strokeCircle", <<endPoint.x, endPoint.y, 30>>) >>,
                power, lastPoint, scan.rays)

showThrowerAiming(startX, startY, angle, joystickDistance) ==
    LET power            == ThrowPower(joystickDistance)
        trajectoryPoints == calculateParabolicTrajectory(startX, startY, angle, power, 980, 20, 2)
        noScan           == [found |-> FALSE, endPoint |-> Vec(0, 0),
                             endPointIndex |-> Len(trajectoryPoints) - 1, rays |-> << >>]
        scan             == IF HasWall THEN ScanTrajectory(trajectoryPoints, 1) ELSE noScan
        lastPoint        == trajectoryPoints[Len(trajectoryPoints)]
        endPoint         == IF scan.found THEN scan.endPoint ELSE lastPoint
        validTrajectoryPoints == SubSeq(trajectoryPoints, 1, scan.endPointIndex + 1)
        lines            == IF config.showTrajectory
                            THEN [k \in 1..(Len(validTrajectoryPoints) - 1) |->
                                    Cmd("lineBetween",
                                        <<validTrajectoryPoints[k].x, validTrajectoryPoints[k].y,
                                          validTrajectoryPoints[k + 1].x,
                                          validTrajectoryPoints[k + 1].y>>)]
                            ELSE << >>
    IN  Outcome(endPoint, {validTrajectoryPoints}, {},
                lines \o
                << Cmd("fillCircle", <<endPoint.x, endPoint.y, 8>>),
                   Cmd("strokeCircle", <<endPoint.x, endPoint.y, 30>>) >>,
                power, lastPoint, scan.rays)

\* showBombAiming taking the larger of the two distances
showBombAiming_Max(startX, startY, angle, joystickDistance) ==
    LET distance   == Max(Tenths(config.maxDistance, 3), joystickDistance * 2)
        trajectory == calculateLinearTrajectory(startX, startY, angle, distance)
        endPoint   == trajectory.end
    IN  Outcome(endPoint, {}, {},
                << Cmd("strokeCircle", <<endPoint.x, endPoint.y, 50>>),
                   Cmd("fillCircle", <<endPoint.x, endPoint.y, 10>>),
                   Cmd("lineBetween", <<startX, startY, endPoint.x, endPoint.y>>) >>,
                distance, trajectory.end, << >>)

showBombAiming(startX, startY, angle, joystickDistance) ==
    LET distance   == Min(Tenths(config.maxDistance, 3), joystickDistance * 2)
        trajectory == calculateLinearTrajectory(startX, startY, angle, distance)
        endPoint   == trajectory.end
    IN  Outcome(endPoint, {}, {},
                << Cmd("strokeCircle", <<endPoint.x, endPoint.y, 50>>),
                   Cmd("fillCircle", <<endPoint.x, endPoint.y, 10>>),
                   Cmd("lineBetween", <<startX, startY, endPoint.x, endPoint.y>>) >>,
                distance, trajectory.end, << >>)

\* showMachineGunAiming without its wall check
showMachineGunAiming_NoWallCheck(startX, startY, angle) ==
    LET distance   == Tenths(config.maxDistance, 8)
        trajectory == calculateLinearTrajectory(startX, startY, angle, distance)
        endPoint   == trajectory.end
        size       == 12
    IN  Outcome(endPoint, {}, {},
                << Cmd("lineBetween", <<startX, startY, endPoint.x, endPoint.y>>),
                   Cmd("strokeCircle", <<endPoint.x, endPoint.y, size>>),
                   Cmd("lineBetween", <<endPoint.x - size, endPoint.y, endPoint.x + size, endPoint.y>>),
                   Cmd("lineBetween", <<endPoint.x, endPoint.y - size, endPoint.x, endPoint.y + size>>) >>,
                distance, trajectory.end, << >>)

showMachineGunAiming(startX, startY, angle) ==
    LET distance   == Tenths(config.maxDistance, 8)
        trajectory == calculateLinearTrajectory(startX, startY, angle, distance)
        endPoint   == Clip(startX, startY, trajectory.end)
        size       == 12
    IN  Outcome(endPoint, {}, {},
                << Cmd("lineBetween", <<startX, startY, endPoint.x, endPoint.y>>),
                   Cmd("strokeCircle", <<endPoint.x, endPoint.y, size>>),
                   Cmd("lineBetween", <<endPoint.x - size, endPoint.y, endPoint.x + size, endPoint.y>>),
                   Cmd("lineBetween", <<endPoint.x, endPoint.y - size, endPoint.x, endPoint.y + size>>) >>,
                distance, trajectory.end,
                WallRays(startX, startY, trajectory.end.x, trajectory.end.y))

\* the switch of showAiming with its default falling into the machinegun case
WeaponDispatch_FallThrough(startX, startY, angle, joystickDistance, weaponType) ==
    CASE weaponType = "SNIPER"     -> showSniperAiming(startX, startY, angle)
      [] weaponType = "SHOTGUN"    -> showShotgunAiming(startX, startY, angle)
      [] weaponType = "THROWER"    -> showThrowerAiming(startX, startY, angle, joystickDistance)
      [] weaponType = "BOMB"       -> showBombAiming(startX, startY, angle, joystickDistance)
      [] OTHER                     -> showMachineGunAiming(startX, startY, angle)

\* the switch of showAiming
WeaponDispatch(startX, startY, angle, joystickDistance, weaponType) ==
    CASE weaponType = "SNIPER"     -> showSniperAiming(startX, startY, angle)
      [] weaponType = "SHOTGUN"    -> showShotgunAiming(startX, startY, angle)
      [] weaponType = "THROWER"    -> showThrowerAiming(startX, startY, angle, joystickDistance)
      [] weaponType = "BOMB"       -> showBombAiming(startX, startY, angle, joystickDistance)
      [] weaponType = "MACHINEGUN" -> showMachineGunAiming(startX, startY, angle)
      [] OTHER                     -> showDefaultAiming(startX, startY, angle)

-----------------------------------------------------------------------------
(* The private skill helpers.                                               *)

Circle(x, y, radius) == [kind |-> "circle", x |-> x, y |-> y, radius |-> radius]

showDefaultSkillAiming(startX, startY) ==
    LET radius == 50
    IN  Outcome(Vec(startX, startY), {}, {Circle(startX, startY, radius)},
                << Cmd("strokeCircle", <<startX, startY, radius>>),
                   Cmd("fillCircle", <<startX, startY, radius>>) >>,
                0, Vec(startX, startY), << >>)

\* showDashSkillAiming without the cap of 200
showDashSkillAiming_NoCap(startX, startY, angle, joystickDistance) ==
    LET dashDistance == joystickDistance * 3
        endX         == startX + Cos(angle) * dashDistance
        endY         == startY + Sin(angle) * dashDistance
        arrowSize    == 10
        arrowAngle1  == angle + 144
        arrowAngle2  == angle - 144
    IN  Outcome(Vec(endX, endY), {}, {},
                << Cmd("lineBetween", <<startX, startY, endX, endY>>),
                   Cmd("lineBetweenPolar", <<endX, endY, arrowAngle1, 0, arrowSize>>),
                   Cmd("lineBetweenPolar", <<endX, endY, arrowAngle2, 0, arrowSize>>) >>,
                dashDistance, Vec(endX, endY), << >>)

showDashSkillAiming(startX, startY, angle, joystickDistance) ==
    LET dashDistance == Min(200, joystickDistance * 3)
        endX         == startX + Cos(angle) * dashDistance
        endY         == startY + Sin(angle) * dashDistance
        arrowSize    == 10
        arrowAngle1  == angle + 144
        arrowAngle2  == angle - 144
    IN  Outcome(Vec(endX, endY), {}, {},
                << Cmd("lineBetween", <<startX, startY, endX, endY>>),
                   Cmd("lineBetweenPolar", <<endX, endY, arrowAngle1, 0, arrowSize>>),
                   Cmd("lineBetweenPolar", <<endX, endY, arrowAngle2, 0, arrowSize>>) >>,
                dashDistance, Vec(endX, endY), << >>)

showShieldSkillAiming(startX, startY) ==
    LET radius == 50
    IN  Outcome(Vec(startX, startY), {}, {Circle(startX, startY, radius)},
                << Cmd("strokeCircle", <<startX, startY, radius>>),
                   Cmd("lineStyle", <<3, 65535, 50>>),
                   Cmd("strokeCircle", <<startX, startY, Tenths(radius, 7)>>) >>,
                0, Vec(startX, startY), << >>)

showHealSkillAiming(startX, startY) ==
    LET radius    == 80
        crossSize == Tenths(radius, 5)
    IN  Outcome(Vec(startX, startY), {}, {Circle(startX, startY, radius)},
                << Cmd("strokeCircle", <<startX, startY, radius>>),
                   Cmd("fillCircle", <<startX, startY, radius>>),
                   Cmd("lineStyle", <<4, 16777215, 80>>),
                   Cmd("lineBetween", <<startX, startY - crossSize, startX, startY + crossSize>>),
                   Cmd("lineBetween", <<startX - crossSize, startY, startX + crossSize, startY>>) >>,
                0, Vec(startX, startY), << >>)

showScopeSkillAiming(startX, startY, angle) ==
    LET distance == Tenths(config.maxDistance, 15)
        endX     == startX + Cos(angle) * distance
        endY     == startY + Sin(angle) * distance
        leftMrad  == -100
        rightMrad == 100
    IN  Outcome(Vec(endX, endY), {}, {},
                << Cmd("beginPath", <<>>),
                   Cmd("moveTo", <<startX, startY>>),
                   Cmd("lineToPolar", <<startX, startY, angle, leftMrad, distance>>),
                   Arc(startX, startY, distance, angle, leftMrad, angle, rightMrad),
                   Cmd("lineTo", <<startX, startY>>),
                   Cmd("closePath", <<>>),
                   Cmd("fillPath", <<>>) >>,
                distance, Vec(endX, endY), << >>)

\* showBombSkillAiming returning the blast circle around the thrower
showBombSkillAiming_AtOrigin(startX, startY, angle, joystickDistance) ==
    LET throwDistance == Min(200, joystickDistance * 2)
        endX          == startX + Cos(angle) * throwDistance
        endY          == startY + Sin(angle) * throwDistance
        blastRadius   == 70
    IN  Outcome(Vec(endX, endY), {}, {Circle(startX, startY, blastRadius)},
                << Cmd("strokeCircle", <<startX, startY, blastRadius>>),
                   Cmd("fillCircle", <<startX, startY, blastRadius>>) >>,
                throwDistance, Vec(endX, endY), << >>)

showBombSkillAiming(startX, startY, angle, joystickDistance) ==
    LET maxDistance   == 200
        throwDistance == Min(maxDistance, joystickDistance * 2)
        endX          == startX + Cos(angle) * throwDistance
        endY          == startY + Sin(angle) * throwDistance
        blastRadius   == 70
        dashLength    == 5
        gapLength     == 5
        lineLength    == throwDistance
        segments      == lineLength \div (dashLength + gapLength)
        directionX    == Cos(angle)
        directionY    == Sin(angle)
        dashes        == [k \in 1..segments |->
                           LET startDash == (k - 1) * (dashLength + gapLength)
                           IN  Cmd("lineBetween",
                                   <<startX + directionX * startDash,
                                     startY + directionY * startDash,
                                     startX + directionX * (startDash + dashLength),
                                     startY + directionY * (startDash + dashLength)>>)]
    IN  Outcome(Vec(endX, endY), {}, {Circle(endX, endY, blastRadius)},
                << Cmd("strokeCircle", <<endX, endY, blastRadius>>),
                   Cmd("fillCircle", <<endX, endY, blastRadius>>) >> \o dashes,
                throwDistance, Vec(endX, endY), << >>)

\* the switch of showSkillAiming
SkillDispatch(startX, startY, angle, joystickDistance, skillType) ==
    CASE skillType = "DASH"   -> showDashSkillAiming(startX, startY, angle, joystickDistance)
      [] skillType = "SHIELD" -> showShieldSkillAiming(startX, startY)
      [] skillType = "HEAL"   -> showHealSkillAiming(startX, startY)
      [] skillType = "SCOPE"  -> showScopeSkillAiming(startX, startY, angle)
      [] skillType = "BOMB"   -> showBombSkillAiming(startX, startY, angle, joystickDistance)
      [] OTHER                -> showDefaultSkillAiming(startX, startY)

-----------------------------------------------------------------------------
(* The public operations.  last records the most recent aiming query: its   *)
(* arguments, the wall layer and maxDistance it ran with, and what the      *)
(* helper returned and did.                                                 *)

Call(kind, startX, startY, angle, joystickDistance, type, out) ==
    [kind |-> kind, x |-> startX, y |-> startY, angle |-> angle,
     joystickDistance |-> joystickDistance, type |-> type,
     wall |-> wallLayer, maxDistance |-> config.maxDistance,
     result |-> out.result, range |-> out.range, rawEnd |-> out.rawEnd,
     rays |-> out.rays]

setWallLayer ==
    /\ \E layer \in Layers : wallLayer' = layer
    /\ UNCHANGED <<config, graphics, last>>

updateConfig ==
    /\ \E i \in 1..Len(ConfigPartials) : config' = Merge(config, ConfigPartials[i])
    /\ UNCHANGED <<wallLayer, graphics, last>>

\* clear resetting the whole object
clear_Reset ==
    /\ graphics' = << >>
    /\ wallLayer' = NoLayer
    /\ UNCHANGED <<config, last>>

clear ==
    /\ graphics' = << >>
    /\ UNCHANGED <<config, wallLayer, last>>

getGraphics ==
    /\ UNCHANGED <<config, wallLayer, graphics, last>>

showAiming ==
    \E o \in Origins, angle \in Angles, joystickDistance \in Magnitudes, weaponType \in WeaponTypes :
        LET out == WeaponDispatch(o.x, o.y, angle, joystickDistance, weaponType)
        IN  /\ graphics' =
                << Cmd("clear", <<>>),
                   Cmd("lineStyle", <<config.lineWidth, config.lineColor, config.lineAlpha>>),
                   Cmd("fillStyle", <<config.fillColor, config.fillAlpha>>) >> \o out.draw
            /\ last' = Call("weapon", o.x, o.y, angle, joystickDistance, weaponType, out)
            /\ UNCHANGED <<config, wallLayer>>

showSkillAiming ==
    \E o \in Origins, angle \in Angles, joystickDistance \in Magnitudes, skillType \in SkillTypes :
        LET out == SkillDispatch(o.x, o.y, angle, joystickDistance, skillType)
        IN  /\ graphics' =
                << Cmd("clear", <<>>),
                   Cmd("lineStyle", <<config.lineWidth, 65535, config.lineAlpha>>),
                   Cmd("fillStyle", <<65535, 30>>) >> \o out.draw
            /\ last' = Call("skill", o.x, o.y, angle, joystickDistance, skillType, out)
            /\ UNCHANGED <<config, wallLayer>>

Next ==
    \/ setWallLayer
    \/ updateConfig
    \/ clear
    \/ getGraphics
    \/ showAiming
    \/ showSkillAiming

Spec == Init /\ [][Next]_vars

-----------------------------------------------------------------------------
(* Vocabulary of the properties below.                                      *)

IsWeapon(t) == last.kind = "weapon" /\ last.type = t

IsSkill(t) == last.kind = "skill" /\ last.type = t

\* the members of the WeaponType enum and the skill strings with a case
KnownWeapons == {"DEFAULT", "SNIPER", "SHOTGUN", "THROWER", "BOMB", "MACHINEGUN"}

KnownSkills == {"DASH", "SHIELD", "HEAL", "SCOPE", "BOMB"}

\* the weapon categories that run showDefaultAiming
DefaultWeapon == last.kind = "weapon" /\ last.type \notin (KnownWeapons \ {"DEFAULT"})

TargetPoint == last.result.targetPoint

LastOrigin == Vec(last.x, last.y)

\* what a raycast from the origin to the unclipped end reports on the layer of the call
OriginCast == checkRaycastHitWall(last.x, last.y, last.rawEnd.x, last.rawEnd.y, last.wall)

OriginHit == Vec(OriginCast.x, OriginCast.y)

WallSet == last.wall # NoLayer

Trajectory == CHOOSE t \in last.result.trajectoryPoints : TRUE

\* the full sample sequence of the thrower query in last
Samples ==
    calculateParabolicTrajectory(last.x, last.y, last.angle,
                                 ThrowPower(last.joystickDistance), 980, 20, 2)

\* pair n of the samples, (p[n-1], p[n]) in the code's indices, is obstructed
PairHit(n) ==
    checkRaycastHitWall(Samples[n].x, Samples[n].y,
                        Samples[n + 1].x, Samples[n + 1].y, last.wall)

-----------------------------------------------------------------------------
(* C1: straight-line categories and the wall.                               *)

ClippedWeapon == DefaultWeapon \/ IsWeapon("SNIPER") \/ IsWeapon("MACHINEGUN")

UnclippedLinear == IsWeapon("BOMB") \/ IsSkill("DASH") \/ IsSkill("SCOPE") \/ IsSkill("BOMB")

\* C1 as stated: for every straight-line category (weapons default, sniper,
\* machinegun, bomb; skills dash, scope, bomb-skill), when a wall layer is set
\* and the raycast origin -> unclipped end reports a hit H, targetPoint is H.
C1_AllLinearClipped ==
    ((ClippedWeapon \/ UnclippedLinear) /\ WallSet /\ OriginCast.hit)
        => TargetPoint = OriginHit

\* C1 amended: default, sniper and machinegun raycast origin -> unclipped end
\* once when a wall layer is set and return the hit point when there is one,
\* the unclipped end otherwise; bomb, dash, scope and bomb-skill never raycast
\* and always return the unclipped end.
C1_ClippedWhereRaycast ==
    /\ ClippedWeapon =>
        /\ (WallSet /\ OriginCast.hit) => TargetPoint = OriginHit
        /\ (~WallSet \/ ~OriginCast.hit) => TargetPoint = last.rawEnd
        /\ last.rays = IF WallSet
                       THEN << Ray(last.x, last.y, last.rawEnd.x, last.rawEnd.y, OriginCast) >>
                       ELSE << >>
    /\ UnclippedLinear => (TargetPoint = last.rawEnd /\ last.rays = << >>)

\* a machinegun query whose ray was cut short by the wall
C1_Witness ==
    /\ IsWeapon("MACHINEGUN") /\ WallSet /\ OriginCast.hit
    /\ TargetPoint = OriginHit /\ TargetPoint # last.rawEnd

-----------------------------------------------------------------------------
(* C2: the thrower's target point and its trajectory.                       *)

\* C2 as stated: in every outcome of a thrower query the returned targetPoint
\* is the last element of the returned trajectoryPoints.
C2_TargetIsLastSample ==
    IsWeapon("THROWER") => TargetPoint = Trajectory[Len(Trajectory)]

-----------------------------------------------------------------------------
(* C3: input magnitude 0.                                                   *)

ScalesWithInput ==
    IsWeapon("THROWER") \/ IsWeapon("BOMB") \/ IsSkill("DASH") \/ IsSkill("BOMB")

\* C3 as stated: every range-scaling category (thrower, bomb, dash,
\* bomb-skill) queried with inputMagnitude 0 has range (or launch power) 0
\* and targetPoint equal to the origin.
C3_ZeroEverywhere ==
    (ScalesWithInput /\ last.joystickDistance = 0)
        => (last.range = 0 /\ TargetPoint = LastOrigin)

\* C3 amended: bomb, dash and bomb-skill queried with inputMagnitude 0 have
\* range 0 and targetPoint equal to the origin, with or without a wall layer;
\* the thrower's launch power at inputMagnitude 0 is 300 and its trajectory
\* keeps at least two samples.
C3_ZeroRange ==
    /\ ((IsWeapon("BOMB") \/ IsSkill("DASH") \/ IsSkill("BOMB")) /\ last.joystickDistance = 0)
        => (last.range = 0 /\ TargetPoint = LastOrigin)
    /\ (IsWeapon("THROWER") /\ last.joystickDistance = 0)
        => (last.range = 300 /\ Len(Trajectory) >= 2)

\* a bomb query with magnitude 0 while a wall layer is set
C3_Witness ==
    IsWeapon("BOMB") /\ last.joystickDistance = 0 /\ WallSet /\ TargetPoint = LastOrigin

-----------------------------------------------------------------------------
(* C4: unrecognised categories.                                             *)

\* C4: a showAiming call with a weapon type outside the enum returns what
\* showDefaultAiming returns for the same origin and angle, and a
\* showSkillAiming call with a skill string without a case returns what
\* showDefaultSkillAiming returns, on the config and wall layer of the call.
C4_UnknownFallsBack ==
    [][ (last' # last) =>
          /\ (last'.kind = "weapon" /\ last'.type \notin KnownWeapons) =>
                LET d == showDefaultAiming(last'.x, last'.y, last'.angle)
                IN  /\ last'.result = d.result
                    /\ last'.rays = d.rays
          /\ (last'.kind = "skill" /\ last'.type \notin KnownSkills) =>
                last'.result = showDefaultSkillAiming(last'.x, last'.y).result
      ]_vars

\* an unrecognised weapon type queried against a wall that cuts the default ray
C4_Witness ==
    /\ last.kind = "weapon" /\ last.type \notin KnownWeapons
    /\ WallSet /\ OriginCast.hit /\ TargetPoint = OriginHit
    /\ last.range = Tenths(last.maxDistance, 6)

-----------------------------------------------------------------------------
(* C5: repeated queries.                                                    *)

SameQuery(a, b) ==
    /\ a.kind = b.kind /\ a.type = b.type /\ a.x = b.x /\ a.y = b.y
    /\ a.angle = b.angle /\ a.joystickDistance = b.joystickDistance
    /\ a.wall = b.wall

\* the categories whose range is a multiple of config.maxDistance
ReadsMaxDistance(c) ==
    \/ c.kind = "weapon" /\ c.type # "THROWER"
    \/ c.kind = "skill" /\ c.type = "SCOPE"

\* C5 as stated: a query repeated with the same origin, angle, magnitude,
\* category and wall layer returns the same result, whatever public
\* operations ran in between.
C5_SameInputsSameResult ==
    [][ (last.kind # "none" /\ SameQuery(last, last')) => last'.result = last.result ]_vars

\* C5 amended: a query repeated with the same origin, angle, magnitude,
\* category and wall layer returns the same result provided config.maxDistance
\* is the same at both calls or the category does not read it (thrower, dash,
\* shield, heal, bomb-skill, default skill); updateConfig can change
\* maxDistance between the calls.
C5_SameInputsSameConfig ==
    [][ (/\ last.kind # "none"
         /\ SameQuery(last, last')
         /\ (last'.maxDistance = last.maxDistance \/ ~ReadsMaxDistance(last)))
            => last'.result = last.result ]_vars

\* a thrower query after which showTrajectory and the graphics were changed
C5_Witness ==
    /\ IsWeapon("THROWER") /\ WallSet
    /\ ~config.showTrajectory /\ config.maxDistance # last.maxDistance
    /\ graphics = << >>

-----------------------------------------------------------------------------
(* C6: the returned area.                                                   *)

\* C6 as stated: the result carries an area for shotgun, bomb (weapon),
\* bomb-skill, shield and heal, and no area for every other weapon category.
C6_AreaForEffectCategories ==
    /\ (IsWeapon("SHOTGUN") \/ IsWeapon("BOMB") \/ IsSkill("BOMB")
            \/ IsSkill("SHIELD") \/ IsSkill("HEAL"))
        => last.result.area # {}
    /\ (last.kind = "weapon" /\ last.type \notin {"SHOTGUN", "BOMB"})
        => last.result.area = {}

\* C6 amended: an area is returned exactly by the skill queries shield, heal,
\* bomb-skill and the default skill, a circle centred on the returned
\* targetPoint with radius 50, 80, 70 and 50; no weapon query (shotgun and
\* bomb included) and neither dash nor scope returns an area.
C6_AreaOnlyFromSkills ==
    /\ last.kind = "weapon" => last.result.area = {}
    /\ (IsSkill("DASH") \/ IsSkill("SCOPE")) => last.result.area = {}
    /\ IsSkill("SHIELD") => last.result.area = {Circle(TargetPoint.x, TargetPoint.y, 50)}
    /\ IsSkill("HEAL") => last.result.area = {Circle(TargetPoint.x, TargetPoint.y, 80)}
    /\ IsSkill("BOMB") => last.result.area = {Circle(TargetPoint.x, TargetPoint.y, 70)}
    /\ (last.kind = "skill" /\ last.type \notin KnownSkills)
        => last.result.area = {Circle(TargetPoint.x, TargetPoint.y, 50)}

\* a bomb-skill query thrown away from the origin
C6_Witness ==
    /\ IsSkill("BOMB") /\ TargetPoint # LastOrigin
    /\ last.result.area = {Circle(TargetPoint.x, TargetPoint.y, 70)}

-----------------------------------------------------------------------------
(* C7: ranges that scale with the input magnitude.                          *)

\* the range a query of the category computes on the current config
WeaponRange(weaponType, joystickDistance) ==
    WeaponDispatch(0, 0, 0, joystickDistance, weaponType).range

SkillRange(skillType, joystickDistance) ==
    SkillDispatch(0, 0, 0, joystickDistance, skillType).range

\* range = base * min(j / norm, 1), with norm = base / perUnit
Scaled(range, base, perUnit, j) ==
    /\ 0 <= range /\ range <= base
    /\ (perUnit * j >= base) => range = base
    /\ (perUnit * j < base) => range = perUnit * j

-----------------------------------------------------------------------------
(* C8: the shotgun cone.                                                    *)

ShotgunClipped == WallSet /\ OriginCast.hit

ShotgunRadius ==
    IF ShotgunClipped
    THEN DistanceBetween(last.x, last.y, OriginHit.x, OriginHit.y)
    ELSE Tenths(last.maxDistance, 4)

Drawn(cmd) == \E i \in DOMAIN graphics : graphics[i] = cmd

\* C8: a shotgun query returns the hit point of the raycast origin -> cone
\* centre when a wall layer is set and the raycast hits, the centre otherwise,
\* and draws a sector with apex at the origin, from angle - 30 to angle + 30
\* degrees, whose radius is the distance origin -> hit point when clipped and
\* 0.4 * maxDistance when not.
C8_ShotgunSector ==
    (IsWeapon("SHOTGUN") /\ graphics # << >>) =>
        /\ TargetPoint = IF ShotgunClipped THEN OriginHit ELSE last.rawEnd
        /\ Drawn(Cmd("moveTo", <<last.x, last.y>>))
        /\ Drawn(Arc(last.x, last.y, ShotgunRadius,
                     last.angle - 30, 0, last.angle + 30, 0))

\* the cone from (40, -20) cut by the wall at x = 100: target (100, -20),
\* radius 60 < 0.4 * maxDistance
C8_Witness ==
    /\ IsWeapon("SHOTGUN") /\ graphics # << >> /\ ShotgunClipped
    /\ TargetPoint = Vec(100, -20)
    /\ ShotgunRadius = 60 /\ ShotgunRadius < Tenths(last.maxDistance, 4)
    /\ Drawn(Arc(40, -20, 60, -30, 0, 30, 0))

-----------------------------------------------------------------------------
(* C9: the thrower's scan of the sample pairs.                              *)

\* the pairs raycast are pairs 1..n of the samples, in that order
ScannedInOrder ==
    \A n \in 1..Len(last.rays) :
        last.rays[n] = Ray(Samples[n].x, Samples[n].y,
                           Samples[n + 1].x, Samples[n + 1].y, PairHit(n))

\* the obstructed pairs of the full sample sequence
Obstructed == {n \in 1..(Len(Samples) - 1) : PairHit(n).hit}

\* C9: the thrower raycasts the sample pairs in ascending order from pair 1
\* and stops at the first obstructed pair k: the trajectory returned is
\* p[0..k] (k + 1 samples) and no later pair is raycast; with no wall layer
\* or no obstructed pair the trajectory is the full sequence of 20 samples
\* and targetPoint is its last sample.
C9_ScanStopsAtFirstHit ==
    IsWeapon("THROWER") =>
        /\ Len(Samples) = 20 /\ Samples[1] = LastOrigin
        /\ ScannedInOrder
        /\ (WallSet /\ Obstructed # {}) =>
                LET k == CHOOSE n \in Obstructed : \A m \in Obstructed : n <= m
                IN  /\ Len(last.rays) = k
                    /\ Trajectory = SubSeq(Samples, 1, k + 1)
                    /\ Len(Trajectory) = k + 1
        /\ (WallSet /\ Obstructed = {}) => Len(last.rays) = 19
        /\ ~WallSet => last.rays = << >>
        /\ (~WallSet \/ Obstructed = {}) =>
                /\ Trajectory = Samples
                /\ TargetPoint = Samples[20]

\* a thrower query whose third pair is the first obstructed one
C9_Witness ==
    /\ IsWeapon("THROWER") /\ WallSet
    /\ Len(last.rays) = 3 /\ last.rays[3].cast.hit /\ ~last.rays[2].cast.hit
    /\ Len(Trajectory) = 4

-----------------------------------------------------------------------------
(* C10: what the operations leave alone.                                    *)

\* C10: a step that records a query or touches the graphics (showAiming,
\* showSkillAiming, clear) and getGraphics leave config and the wall layer
\* unchanged; the wall layer changes only by setWallLayer, config only by
\* updateConfig, and a wall layer once set is never unset.
C10_QueriesReadOnly ==
    [][ /\ (last' # last \/ graphics' # graphics) => UNCHANGED <<config, wallLayer>>
        /\ (wallLayer' # wallLayer) => (setWallLayer /\ wallLayer' \in Layers)
        /\ (config' # config) => updateConfig
        /\ (wallLayer # NoLayer) => (wallLayer' # NoLayer)
      ]_vars

\* a query made and the graphics then cleared, with a wall layer set and a
\* config that differs from the default one
C10_Witness ==
    /\ last.kind = "skill" /\ graphics = << >>
    /\ wallLayer # NoLayer /\ last.wall = wallLayer
    /\ config.maxDistance = 200 /\ last.maxDistance = 200

====
